---- MODULE Spec2Model ----
(***************************************************************************)
(* Model of garde's error module (src/garde/src/error.rs): the Path type   *)
(* built on a persistent list, its Display rendering, the Report container *)
(* and the select! query.                                                  *)
(*                                                                         *)
(* Text (CompactString, &str) is a sequence of one-character strings, so   *)
(* that "a.b" is <<"a", ".", "b">> and concatenation is \o.                *)
(***************************************************************************)
EXTENDS Integers, Sequences, FiniteSets, TLC

VARIABLES
    nodes,    \* the Arc<Node> cells allocated so far: nodes[i] = [value, prev]
    paths,    \* the Path values built so far, each with the arguments it was built from
    report    \* Report.errors: Vec<(Path, Error)>

vars == <<nodes, paths, report>>

----------------------------------------------------------------------------
(* Bounds of the model *)

MaxNodes == 3        \* list cells allocated by the path-only driver
MaxHeld == 2         \* list cells allocated by the driver that also reports
MaxReport == 2       \* entries appended to the report
MaxTestReport == 4   \* entries appended by the report_select driver

----------------------------------------------------------------------------
(* Arguments of Path::new / Path::join: the PathComponentKind implementors *)

KeyIn(s) == [ty |-> "str", s |-> s, n |-> 0]
IdxIn(n) == [ty |-> "usize", s |-> <<>>, n |-> n]
NoKeyIn == [ty |-> "NoKey", s |-> <<>>, n |-> 0]

\* fn component_kind() of each implementor
component_kind(c) ==
    CASE c.ty = "usize" -> "Index"
      [] c.ty = "str" -> "Key"
      [] c.ty = "NoKey" -> "None"

Digits == <<"0", "1", "2", "3", "4", "5", "6", "7", "8", "9">>

\* Display of usize: the decimal form
RECURSIVE ToDecimal(_)
ToDecimal(n) ==
    IF n < 10 THEN <<Digits[n + 1]>>
    ELSE ToDecimal(n \div 10) \o <<Digits[(n % 10) + 1]>>

\* ToCompactString through Display: a str is its text, a usize its decimal
\* form, NoKey writes nothing
to_compact_string(c) ==
    CASE c.ty = "usize" -> ToDecimal(c.n)
      [] c.ty = "str" -> c.s
      [] c.ty = "NoKey" -> <<>>

----------------------------------------------------------------------------
(* rc_list::List: a persistent list; the head is the latest element *)

ListNew == [node |-> 0, length |-> 0]

ListAppend(heap, l, v) ==
    [heap |-> Append(heap, [value |-> v, prev |-> l.node]),
     list |-> [node |-> Len(heap) + 1, length |-> l.length + 1]]

ListLen(l) == l.length

ListIsEmpty(l) == l.length = 0

\* head-to-tail order: the most recent element first
RECURSIVE ListIterFrom(_, _)
ListIterFrom(heap, n) ==
    IF n = 0 THEN <<>>
    ELSE <<heap[n].value>> \o ListIterFrom(heap, heap[n].prev)

ListIter(heap, l) == ListIterFrom(heap, l.node)

----------------------------------------------------------------------------
(* Path *)

PathEmptyOp == [components |-> ListNew]

PathLen(p) == ListLen(p.components)

PathIsEmpty(p) == ListIsEmpty(p.components)

PathNewOp(heap, c) ==
    LET r == ListAppend(heap, ListNew, <<component_kind(c), to_compact_string(c)>>)
    IN  [heap |-> r.heap, path |-> [components |-> r.list]]

\* join that starts from List::new(), as Path::new does, instead of self.components
PathJoinFromNew(heap, p, c) ==
    LET r == ListAppend(heap, ListNew, <<component_kind(c), to_compact_string(c)>>)
    IN  [heap |-> r.heap, path |-> [components |-> r.list]]

\* join that also writes the new component into the head cell of self
PathJoinInPlace(heap, p, c) ==
    LET v == <<component_kind(c), to_compact_string(c)>>
        r == ListAppend(heap, p.components, v)
    IN  [heap |-> IF p.components.node = 0 THEN r.heap
                  ELSE [r.heap EXCEPT ![p.components.node].value = v],
         path |-> [components |-> r.list]]

PathJoinOp(heap, p, c) ==
    LET r == ListAppend(heap, p.components,
                        <<component_kind(c), to_compact_string(c)>>)
    IN  [heap |-> r.heap, path |-> [components |-> r.list]]

\* __iter that leaves out the head of the list
Path_iterSkipHead(heap, p) ==
    IF p.components.node = 0 THEN <<>>
    ELSE ListIterFrom(heap, heap[p.components.node].prev)

\* Path::__iter: the (kind, text) pairs in the list's order, deepest first
Path_iter(heap, p) == ListIter(heap, p.components)

\* Iterator::rev
Rev(s) == [i \in 1..Len(s) |-> s[Len(s) + 1 - i]]

\* Display loop that writes an Index component without its brackets
RECURSIVE FmtLoopNoBrackets(_, _, _, _)
FmtLoopNoBrackets(comps, i, first, out) ==
    IF i > Len(comps) THEN out
    ELSE
        LET o2 == out \o comps[i][2]
            o4 == IF i < Len(comps) /\ comps[i + 1][1] = "Key"
                  THEN o2 \o <<".">>
                  ELSE o2
        IN  FmtLoopNoBrackets(comps, i + 1, FALSE, o4)

\* the while-let loop of Display for Path; i is the position of `components`
RECURSIVE FmtLoop(_, _, _, _)
FmtLoop(comps, i, first, out) ==
    IF i > Len(comps) THEN out
    ELSE
        LET kind == comps[i][1]
            o1 == IF first /\ kind = "Index" THEN out \o <<"[">> ELSE out
            o2 == o1 \o comps[i][2]
            o3 == IF kind = "Index" THEN o2 \o <<"]">> ELSE o2
            o4 == IF i < Len(comps)
                  THEN CASE comps[i + 1][1] = "None" -> o3
                         [] comps[i + 1][1] = "Key" -> o3 \o <<".">>
                         [] comps[i + 1][1] = "Index" -> o3 \o <<"[">>
                  ELSE o3
        IN  FmtLoop(comps, i + 1, FALSE, o4)

PathDisplay(heap, p) == FmtLoop(Rev(Path_iter(heap, p)), 1, TRUE, <<>>)

----------------------------------------------------------------------------
(* Error and Report *)

ErrorNew(message) == [message |-> message]

ErrorDisplay(e) == e.message

ReportNew == <<>>

\* append that inserts at the front
ReportAppendFront(errors, path, error) == <<<<path, error>>>> \o errors

ReportAppendOp(errors, path, error) == Append(errors, <<path, error>>)

ReportIter(errors) == errors

ReportIsEmpty(errors) == Len(errors) = 0

\* Display loop that uses write! instead of writeln!
RECURSIVE ReportFmtNoNewline(_, _, _, _)
ReportFmtNoNewline(heap, errors, i, out) ==
    IF i > Len(errors) THEN out
    ELSE ReportFmtNoNewline(heap, errors, i + 1,
             out \o PathDisplay(heap, errors[i][1]) \o <<":", " ">>
                 \o ErrorDisplay(errors[i][2]))

\* the for loop of Display for Report: writeln!(f, "{path}: {error}")
RECURSIVE ReportFmtLoop(_, _, _, _)
ReportFmtLoop(heap, errors, i, out) ==
    IF i > Len(errors) THEN out
    ELSE ReportFmtLoop(heap, errors, i + 1,
             out \o PathDisplay(heap, errors[i][1]) \o <<":", " ">>
                 \o ErrorDisplay(errors[i][2]) \o <<"\n">>)

ReportDisplay(heap, errors) == ReportFmtLoop(heap, ReportIter(errors), 1, <<>>)

----------------------------------------------------------------------------
(* select!: the pattern is a sequence of tokens, ident or [integer] *)

Ident(s) == [tok |-> "ident", s |-> s, n |-> 0]
IndexTok(n) == [tok |-> "index", s |-> <<>>, n |-> n]

\* the kind a token stands for
TokenKind(t) == IF t.tok = "index" THEN "Index" ELSE "Key"

\* the text a token is compared by
TokenText(t) == IF t.tok = "index" THEN ToDecimal(t.n) ELSE t.s

\* the components of a path that are not of kind None, root first
NonNone(comps) == SelectSeq(comps, LAMBDA c : c[1] # "None")

\* the filter of select!: the leading components of the path, taken root
\* first, are compared with the needle by text; tests::report_select joins
\* the string "0" and selects that entry with array[0].c
SelectMatches(heap, p, needle) ==
    LET c == NonNone(Rev(Path_iter(heap, p)))
    IN  /\ Len(c) >= Len(needle)
        /\ \A i \in 1..Len(needle) : c[i][2] = TokenText(needle[i])

\* the positions of the entries select! keeps, in the report's order
RECURSIVE SelectFrom(_, _, _, _)
SelectFrom(heap, errors, needle, i) ==
    IF i > Len(errors) THEN <<>>
    ELSE (IF SelectMatches(heap, errors[i][1], needle) THEN <<i>> ELSE <<>>)
         \o SelectFrom(heap, errors, needle, i + 1)

SelectKept(heap, errors, needle) == SelectFrom(heap, ReportIter(errors), needle, 1)

\* select!(report, needle): the errors of the kept entries
Select(heap, errors, needle) ==
    LET k == SelectKept(heap, errors, needle)
    IN  [j \in 1..Len(k) |-> errors[k[j]][2]]

----------------------------------------------------------------------------
(* Inputs of the drivers *)

Ta == <<"a">>
Tb == <<"b">>
Tc == <<"c">>
Txs == <<"x", "s">>
T0 == <<"0">>
Tarray == <<"a", "r", "r", "a", "y">>

\* components the path-only driver joins
PathComps == {KeyIn(Ta), KeyIn(T0), KeyIn(<<"a", ".", "0">>), IdxIn(0), NoKeyIn}

\* components the reporting driver joins
ReportComps == {KeyIn(Ta), KeyIn(T0), IdxIn(0), NoKeyIn}

\* messages the reporting driver attaches
Messages == {<<"x">>, <<"y">>}

----------------------------------------------------------------------------
(* State machine *)

Init ==
    /\ nodes = <<>>
    /\ paths = {}
    /\ report = ReportNew

\* let p = Path::empty();
PathEmpty ==
    /\ paths' = paths \cup {[path |-> PathEmptyOp, args |-> <<>>]}
    /\ UNCHANGED <<nodes, report>>

\* let p = Path::new(k);
PathNew(k) ==
    LET r == PathNewOp(nodes, k)
    IN  /\ nodes' = r.heap
        /\ paths' = paths \cup {[path |-> r.path, args |-> <<k>>]}
        /\ UNCHANGED report

\* let q = h.join(k);
PathJoin(h, k) ==
    LET r == PathJoinOp(nodes, h.path, k)
    IN  /\ nodes' = r.heap
        /\ paths' = paths \cup {[path |-> r.path, args |-> Append(h.args, k)]}
        /\ UNCHANGED report

\* report.append(h.clone(), Error::new(m));
ReportAppend(h, m) ==
    /\ report' = ReportAppendOp(report, h.path, ErrorNew(m))
    /\ UNCHANGED <<nodes, paths>>

NextPath ==
    \/ PathEmpty
    \/ /\ Len(nodes) < MaxNodes
       /\ \E k \in PathComps : PathNew(k)
    \/ /\ Len(nodes) < MaxNodes
       /\ \E h \in paths, k \in PathComps : PathJoin(h, k)

SpecPath == Init /\ [][NextPath]_vars

Next ==
    \/ PathEmpty
    \/ /\ Len(nodes) < MaxHeld
       /\ \E k \in ReportComps : PathNew(k)
    \/ /\ Len(nodes) < MaxHeld
       /\ \E h \in paths, k \in ReportComps : PathJoin(h, k)
    \/ /\ Len(report) < MaxReport
       /\ \E h \in paths, m \in Messages : ReportAppend(h, m)

Spec == Init /\ [][Next]_vars

----------------------------------------------------------------------------
(* The driver of tests::report_select: its append statements, taken in any *)
(* order; each builds a fresh path with new and join and appends it.       *)

lol == <<"l", "o", "l">>
pog == <<"p", "o", "g">>
that_seems_wrong ==
    <<"t", "h", "a", "t", " ", "s", "e", "e", "m", "s", " ", "w", "r", "o", "n", "g">>

\* the four append statements of the test, and the same array path joined
\* with the integer 0 instead of the string "0"
TestStmts ==
    << [args |-> <<KeyIn(Ta), KeyIn(Tb)>>, msg |-> lol],
       [args |-> <<KeyIn(Ta), KeyIn(Tb), KeyIn(Tc)>>, msg |-> that_seems_wrong],
       [args |-> <<KeyIn(Ta), KeyIn(Tb), KeyIn(Tc)>>, msg |-> pog],
       [args |-> <<KeyIn(Tarray), KeyIn(T0), KeyIn(Tc)>>, msg |-> pog],
       [args |-> <<KeyIn(Tarray), IdxIn(0), KeyIn(Tc)>>, msg |-> lol] >>

\* p.join(args[i]).join(args[i+1])...
RECURSIVE JoinAll(_, _, _, _)
JoinAll(heap, p, args, i) ==
    IF i > Len(args) THEN [heap |-> heap, path |-> p]
    ELSE LET r == PathJoinOp(heap, p, args[i])
         IN  JoinAll(r.heap, r.path, args, i + 1)

\* Path::new(args[1]).join(args[2])...
Build(heap, args) ==
    LET r == PathNewOp(heap, args[1])
    IN  JoinAll(r.heap, r.path, args, 2)

\* report.append(Path::new(..).join(..).., Error::new(msg));
TestAppend(i) ==
    LET r == Build(nodes, TestStmts[i].args)
    IN  /\ nodes' = r.heap
        /\ paths' = paths \cup {[path |-> r.path, args |-> TestStmts[i].args]}
        /\ report' = ReportAppendOp(report, r.path, ErrorNew(TestStmts[i].msg))

NextTest ==
    /\ Len(report) < MaxTestReport
    /\ \E i \in 1..Len(TestStmts) : TestAppend(i)

SpecTest == Init /\ [][NextTest]_vars

----------------------------------------------------------------------------
(* Helpers of the properties *)

\* the arguments the path p was built from, root first
ArgsOf(p) == (CHOOSE h \in paths : h.path = p).args

\* the (kind, text) pair an argument stands for
CompOf(k) == <<component_kind(k), to_compact_string(k)>>

CompsOf(args) == [i \in 1..Len(args) |-> CompOf(args[i])]

\* the rendering of Path::new(args[1]).join(args[2])..., built in a fresh heap
DisplayOfArgs(args) ==
    IF args = <<>> THEN PathDisplay(<<>>, PathEmptyOp)
    ELSE LET r == Build(<<>>, args) IN PathDisplay(r.heap, r.path)

RECURSIVE Concat(_)
Concat(ss) == IF ss = <<>> THEN <<>> ELSE Head(ss) \o Concat(Tail(ss))

\* the separator the rendering laws give each kind
Sep(kind) ==
    CASE kind = "Key" -> <<".">>
      [] kind = "Index" -> <<"[">>
      [] kind = "None" -> <<>>

Close(kind) == IF kind = "Index" THEN <<"]">> ELSE <<>>

OnlyKeyAndIndex(args) ==
    \A i \in 1..Len(args) : component_kind(args[i]) \in {"Key", "Index"}

----------------------------------------------------------------------------
(* C1 *)

C1Piece(args, i) ==
    LET t == to_compact_string(args[i])
    IN  IF component_kind(args[i]) = "Index" THEN <<"[">> \o t \o <<"]">>
        ELSE IF i = 1 THEN t ELSE <<".">> \o t

C1Expected(args) == Concat([i \in 1..Len(args) |-> C1Piece(args, i)])

\* C1: a path built by new and join from a non-empty sequence of Key and
\* Index components renders the components root first, a Key as its text
\* with a leading '.' unless it is first, an Index as '[' text ']' anywhere;
\* new("a").join("b").join("c") renders "a.b.c" and
\* new("xs").join(0).join("c") renders "xs[0].c".
C1_RenderKeyIndex ==
    /\ \A h \in paths :
          (h.args # <<>> /\ OnlyKeyAndIndex(h.args))
              => PathDisplay(nodes, h.path) = C1Expected(h.args)
    /\ DisplayOfArgs(<<KeyIn(Ta), KeyIn(Tb), KeyIn(Tc)>>) = <<"a", ".", "b", ".", "c">>
    /\ DisplayOfArgs(<<KeyIn(Txs), IdxIn(0), KeyIn(Tc)>>)
          = <<"x", "s", "[", "0", "]", ".", "c">>

\* a path of the shape key[index].key has been built and rendered
C1_Witness ==
    \E h \in paths :
        /\ h.args = <<KeyIn(Ta), IdxIn(0), KeyIn(Ta)>>
        /\ PathDisplay(nodes, h.path) = <<"a", "[", "0", "]", ".", "a">>

----------------------------------------------------------------------------
(* C2 *)

C2Joined(h, k, sep) ==
    LET r == PathJoinOp(nodes, h.path, k)
    IN  PathDisplay(r.heap, r.path)
          = PathDisplay(nodes, h.path) \o sep \o to_compact_string(k)
                \o Close(component_kind(k))

\* C2 as stated: for every path p, the empty one included, and every
\* component k, p.join(k) renders as p followed by sep(kind(k)), the text of
\* k, and ']' when k is an Index.
C2_JoinRenderAll ==
    \A h \in paths, k \in PathComps : C2Joined(h, k, Sep(component_kind(k)))

\* C2 amended: the same law, except that joining a Key to the empty path
\* writes no '.'.
C2_JoinRender ==
    \A h \in paths, k \in PathComps :
        C2Joined(h, k,
                 IF PathLen(h.path) = 0 /\ component_kind(k) = "Key"
                 THEN <<>> ELSE Sep(component_kind(k)))

\* joins on the empty path and on a non-empty path have both happened
C2_Witness ==
    /\ \E h \in paths : h.args = <<>>
    /\ \E h \in paths : h.args = <<KeyIn(Ta)>>
    /\ \E h \in paths :
          /\ h.args = <<KeyIn(Ta), IdxIn(0)>>
          /\ PathDisplay(nodes, h.path) = <<"a", "[", "0", "]">>

----------------------------------------------------------------------------
(* C3 *)

\* C3: a path whose root component is NoKey renders as if that component
\* were absent: new(NoKey).join("a") renders "a", with no leading separator.
C3_NoKeyRootAbsent ==
    \A h \in paths :
        (h.args # <<>> /\ h.args[1] = NoKeyIn)
            => PathDisplay(nodes, h.path) = DisplayOfArgs(Tail(h.args))

----------------------------------------------------------------------------
(* C4 *)

\* the patterns select! is called with
Patterns ==
    {<<>>, <<Ident(Ta)>>, <<Ident(Ta), Ident(Ta)>>, <<Ident(Ta), IndexTok(0)>>}

\* the positions select keeps for pat
KeptSet(pat) ==
    LET k == SelectKept(nodes, report, pat) IN {k[j] : j \in 1..Len(k)}

Kept(i, pat) == i \in KeptSet(pat)

\* the first |pat| non-None components of args equal pat in kind and text
KindTextPrefix(args, pat) ==
    LET nn == NonNone(CompsOf(args))
    IN  /\ Len(nn) >= Len(pat)
        /\ \A j \in 1..Len(pat) :
              nn[j] = <<TokenKind(pat[j]), TokenText(pat[j])>>

\* the first |pat| non-None components of args equal pat in text
TextPrefix(args, pat) ==
    LET nn == NonNone(CompsOf(args))
    IN  /\ Len(nn) >= Len(pat)
        /\ \A j \in 1..Len(pat) : nn[j][2] = TokenText(pat[j])

----------------------------------------------------------------------------
(* C5 *)

TestPatterns ==
    { <<Ident(Ta), Ident(Tb), Ident(Tc)>>,
      <<Ident(Tarray), IndexTok(0), Ident(Tc)>>,
      <<Ident(Ta), Ident(Tb)>>,
      <<Ident(Tarray)>> }

\* the report holds exactly the statements js of the test, in that order
TestReportIs(js) ==
    /\ Len(report) = Len(js)
    /\ \A i \in 1..Len(js) :
          /\ ArgsOf(report[i][1]) = TestStmts[js[i]].args
          /\ report[i][2] = ErrorNew(TestStmts[js[i]].msg)

\* the errors, in insertion order, of the entries whose arguments begin
\* with the texts of pat
RECURSIVE C5Expected(_, _)
C5Expected(pat, i) ==
    IF i > Len(report) THEN <<>>
    ELSE (IF TextPrefix(ArgsOf(report[i][1]), pat)
          THEN <<report[i][2]>> ELSE <<>>) \o C5Expected(pat, i + 1)

----------------------------------------------------------------------------
(* C6 *)

\* C6: every step leaves the sequence iter() yields unchanged or extends it
\* at the end by exactly the one pair passed to append; nothing is removed,
\* merged or reordered, and duplicates are kept.
C6_AppendOnly ==
    [][\/ ReportIter(report') = ReportIter(report)
       \/ \E h \in paths, m \in Messages :
              ReportIter(report') = ReportIter(report) \o <<<<h.path, ErrorNew(m)>>>>]_vars

\* the same pair has been appended twice and both are kept
C6_Witness ==
    /\ Len(ReportIter(report)) = 2
    /\ ReportIter(report)[1] = ReportIter(report)[2]

----------------------------------------------------------------------------
(* C7 *)

\* C7: Path::empty().len() is 0, Path::new(k).len() is 1, p.join(k).len()
\* is p.len() + 1 for every kind of k, and is_empty() holds exactly when
\* len() is 0, so a path of NoKey components only is not empty.
C7_Len ==
    /\ PathLen(PathEmptyOp) = 0
    /\ \A k \in PathComps : PathLen(PathNewOp(nodes, k).path) = 1
    /\ \A h \in paths :
          /\ PathLen(h.path) = Len(h.args)
          /\ PathIsEmpty(h.path) <=> PathLen(h.path) = 0
          /\ (h.args # <<>> /\ \A i \in 1..Len(h.args) : h.args[i] = NoKeyIn)
                => ~PathIsEmpty(h.path)
          /\ \A k \in PathComps :
                PathLen(PathJoinOp(nodes, h.path, k).path) = PathLen(h.path) + 1

\* a path of two NoKey components has been built
C7_Witness ==
    \E h \in paths :
        /\ h.args = <<NoKeyIn, NoKeyIn>>
        /\ PathLen(h.path) = 2
        /\ ~PathIsEmpty(h.path)

----------------------------------------------------------------------------
(* C8 *)

----------------------------------------------------------------------------
(* C9 *)

C9Line(e) == PathDisplay(nodes, e[1]) \o <<":", " ">> \o e[2].message \o <<"\n">>

\* C9: Display of a Report is, for each pair in insertion order, the path's
\* Display string, ": ", the message and a newline, and nothing else; the
\* empty report renders as the empty string and the entries (a, "x"),
\* (b, "y") render as "a: x\nb: y\n".
C9_ReportDisplay ==
    /\ ReportDisplay(nodes, report) = Concat([i \in 1..Len(report) |-> C9Line(report[i])])
    /\ report = <<>> => ReportDisplay(nodes, report) = <<>>
    /\ LET pa == PathNewOp(<<>>, KeyIn(Ta))
           pb == PathNewOp(pa.heap, KeyIn(Tb))
       IN  ReportDisplay(pb.heap, <<<<pa.path, ErrorNew(<<"x">>)>>,
                                    <<pb.path, ErrorNew(<<"y">>)>>>>)
             = <<"a", ":", " ", "x", "\n", "b", ":", " ", "y", "\n">>

\* the report holds (a, "x") then (0, "y") and renders as two lines
C9_Witness ==
    /\ Len(report) = 2
    /\ ArgsOf(report[1][1]) = <<KeyIn(Ta)>> /\ report[1][2].message = <<"x">>
    /\ ArgsOf(report[2][1]) = <<KeyIn(T0)>> /\ report[2][2].message = <<"y">>
    /\ ReportDisplay(nodes, report)
          = <<"a", ":", " ", "x", "\n", "0", ":", " ", "y", "\n">>

----------------------------------------------------------------------------
(* C10 *)

\* no None component, and every text non-empty and free of '.', '[', ']'
C10Plain(args) ==
    \A i \in 1..Len(args) :
        LET t == to_compact_string(args[i])
        IN  /\ component_kind(args[i]) # "None"
            /\ t # <<>>
            /\ \A j \in 1..Len(t) : t[j] \notin {".", "[", "]"}

\* C10: two paths without None components, whose texts are non-empty and
\* contain none of '.', '[', ']', render to the same string only if their
\* (kind, text) sequences are equal; without these conditions distinct
\* paths can render alike, as Path::empty() and Path::new(NoKey) do.
C10_DisplayInjective ==
    /\ \A h1 \in paths, h2 \in paths :
          (/\ C10Plain(h1.args) /\ C10Plain(h2.args)
           /\ PathDisplay(nodes, h1.path) = PathDisplay(nodes, h2.path))
              => CompsOf(h1.args) = CompsOf(h2.args)
    /\ \A h1 \in paths, h2 \in paths :
          (h1.args = <<>> /\ h2.args = <<NoKeyIn>>)
              => PathDisplay(nodes, h1.path) = PathDisplay(nodes, h2.path)

\* a Key "0" and an Index 0 have both been appended to the same parent
C10_Witness ==
    \E h1 \in paths, h2 \in paths :
        /\ h1.args = <<KeyIn(Ta), KeyIn(T0)>>
        /\ h2.args = <<KeyIn(Ta), IdxIn(0)>>
        /\ PathDisplay(nodes, h1.path) # PathDisplay(nodes, h2.path)

====
